---- MODULE Spec2Model ----
(***************************************************************************)
(* Model of the query-execution substrate and the agent workflow of        *)
(* src/gemini.py: the process-wide DuckDB connection / registration        *)
(* caches, complex_duckdb_query with its stale-connection retry, and the   *)
(* LangGraph workflow generate_query -> generate_analysis driven by the    *)
(* reasoning engine's responses.                                           *)
(***************************************************************************)
EXTENDS Integers, FiniteSets, Sequences, TLC

\* ---------------------------------------------------------------- bounds
\* Engine connections that may exist at once for one workbook.
MaxConns == 2
\* Deepest recursion of complex_duckdb_query into itself that is explored
\* (stands for the interpreter's recursion limit).
MaxDepth == 2
\* Direct calls of complex_duckdb_query each concurrent thread makes.
MaxCalls == 2
\* Longest sheet name handed to sanitize_table_name.
MaxLen == 3
\* Most sheets of a workbook whose registration or preview is examined.
MaxSheets == 2
\* Most parts of a response of the reasoning engine.
MaxParts == 3

\* ------------------------------------------------------ program constants
\* Default recursion_limit of the compiled graph's invoke (no recursion_limit
\* is put in the config built by run_excel_analysis).
RecursionLimit == 25
\* The bound written in should_continue_after_analysis.
MaxIterations == 10

\* ------------------------------------------------------------ value sets
None == "None"
NoConn == 0
ConnSlots == 1..MaxConns
Procs == {1, 2}
\* The thread of control that runs the workflow in the sequential
\* specification.
Main == 1
\* The workbooks that get queried, hence the keys of the caches.
Workbooks == {"ok.xlsx", "bad.xlsx", "gone.xlsx"}
\* The file_name values handed to run_excel_analysis and clear_duckdb_cache.
FileNames == Workbooks \cup {""}
Queries == {"valid", "invalid", "connword"}
\* The workbooks the concurrent threads query.
ConcWorkbooks == {"ok.xlsx", "bad.xlsx"}
\* The thread_id values of line 1430: the default one and a session's.
ThreadIds == {"excel_analysis_thread", "session"}
FRIENDLY == "friendly"
RAW == "raw"
END == "END"

VARIABLES
    connCache,  \* _DUCKDB_CONNECTION_CACHE : workbook -> its connection or NoConn
    regCache,   \* _REGISTERED_SHEETS_CACHE : workbook -> registration record
    conns,      \* the engine connections opened for each workbook
    call,       \* per thread: the frame of its complex_duckdb_query call
    state,      \* AgentState of the running invocation
    wf,         \* control state of run_excel_analysis / the compiled graph
    hist,       \* history: how the previous invocation on this workbook ended
    probe       \* the call of a data-conversion function under examination

vars == <<connCache, regCache, conns, call, state, wf, hist, probe>>
cacheVars == <<connCache, regCache, conns>>
agentVars == <<state, wf, hist>>
programVars == <<connCache, regCache, conns, call, state, wf, hist>>

\* ------------------------------------------------------------ environment
\* What the file system holds for a file name: ok.xlsx is readable, bad.xlsx
\* has a sheet whose read fails, gone.xlsx does not exist.
FileStatus(w) ==
    CASE w = "ok.xlsx" -> "ok"
      [] w = "bad.xlsx" -> "badsheet"
      [] OTHER -> "missing"

\* get_excel_sheets: the sheet names, [] when the file cannot be opened.
get_excel_sheets(w) ==
    IF FileStatus(w) \in {"ok", "badsheet"} THEN {"s1", "s2"} ELSE {}

\* The sheets read and registered before a registration pass stops: all of
\* them, or those before the sheet whose read raises.
RegisteredBeforeFailure(w) ==
    IF FileStatus(w) = "badsheet" THEN {"s1"} ELSE get_excel_sheets(w)

\* Python truthiness of an Optional[str].
Truthy(x) == x \notin {None, ""}

NoRecord == [present |-> FALSE, sheets |-> {}]
UnusedConn == [st |-> "unused", tables |-> {}, closer |-> 0]

\* found / had_record: what the call's first get_or_create_duckdb_connection
\* saw in the caches (history).
IdleFrame ==
    [pc |-> "idle", file_name |-> "", query |-> "valid", con |-> NoConn,
     needs_registration |-> FALSE, attempts |-> 0, depth |-> 0, regs |-> 0,
     result |-> None, found |-> "none", had_record |-> FALSE, calls |-> 0]

\* The program points at which a frame uses its connection.
InUsePcs == {"register", "store", "showtables", "execute"}

\* Thread q's frame still refers to connection k of workbook w.
Refers(q, w, k) ==
    /\ call[q].pc \in InUsePcs \cup {"clear", "except"}
    /\ call[q].file_name = w
    /\ call[q].con = k

\* ------------------------------------------------------- sheet-name strings
\* A string is a sequence of characters.  I_dot is the capital I with a dot
\* above (U+0130), whose lower() is the letter i followed by the combining
\* dot above (U+0307), a character that is neither a word character nor
\* white space.
Alphabet == {"A", "b", " ", "-", "_", "I_dot"}

\* Characters that \w does not match.
NonWord == {" ", "-", "dot_above"}

\* str.lower() of the capital letters in use.
ToLower == [c \in {"A", "B", "F", "P"} |->
               CASE c = "A" -> "a" [] c = "B" -> "b" [] c = "F" -> "f" [] OTHER -> "p"]

\* str.lower() of one character.
LowerChar(c) ==
    IF c = "I_dot" THEN <<"i", "dot_above">>
    ELSE IF c \in DOMAIN ToLower THEN <<ToLower[c]>>
    ELSE <<c>>

RECURSIVE lower(_)
lower(s) == IF s = <<>> THEN <<>> ELSE LowerChar(Head(s)) \o lower(Tail(s))

RECURSIVE lstrip(_, _)
lstrip(s, chars) ==
    IF s # <<>> /\ Head(s) \in chars THEN lstrip(Tail(s), chars) ELSE s

RECURSIVE rstrip(_, _)
rstrip(s, chars) ==
    IF s # <<>> /\ s[Len(s)] \in chars
    THEN rstrip(SubSeq(s, 1, Len(s) - 1), chars) ELSE s

\* str.strip(): of white space, or of the given characters.
strip(s, chars) == rstrip(lstrip(s, chars), chars)

\* re.sub(r"[^\w]", "_", s)
SubNonWord(s) == [i \in 1..Len(s) |-> IF s[i] \in NonWord THEN "_" ELSE s[i]]

\* re.sub(r"_+", "_", s)
RECURSIVE SubUnderscores(_)
SubUnderscores(s) ==
    IF Len(s) < 2 THEN s
    ELSE IF s[1] = "_" /\ s[2] = "_" THEN SubUnderscores(Tail(s))
    ELSE <<s[1]>> \o SubUnderscores(Tail(s))

\* sanitize_table_name, lines 583-589.
sanitize_table_name(sheet_name) ==
    strip(SubUnderscores(lower(SubNonWord(strip(sheet_name, {" "})))), {"_"})

RECURSIVE StringsUpTo(_)
StringsUpTo(n) ==
    IF n = 0 THEN {<<>>}
    ELSE LET shorter == StringsUpTo(n - 1) IN
         shorter \cup {Append(s, c) : s \in {t \in shorter : Len(t) = n - 1},
                                       c \in Alphabet}

\* The sheet names sanitize_table_name is examined on.
SheetNames == StringsUpTo(MaxLen)

NoProbe == [op |-> "none", arg |-> <<>>, out |-> <<>>]

\* A call sanitize_table_name(x).
SanitizeName ==
    /\ probe = NoProbe
    /\ \E x \in SheetNames :
          probe' = [op |-> "sanitize_table_name", arg |-> x,
                    out |-> sanitize_table_name(x)]
    /\ UNCHANGED programVars

\* ------------------------------------------------ registration of the sheets
\* The sheet names of the workbooks whose registration is examined: "A b",
\* "A-b", "a_b" and "b".
WorkbookSheets ==
    {<<"A", " ", "b">>, <<"A", "-", "b">>, <<"a", "_", "b">>, <<"b">>}

\* The sheet_names lists: up to MaxSheets pairwise different names, in the
\* workbook's order.
SheetLists ==
    {l \in UNION {[1..n -> WorkbookSheets] : n \in 0..MaxSheets} :
        \A i, j \in 1..Len(l) : i # j => l[i] # l[j]}

Backticked(sheet) == <<"backtick">> \o sheet \o <<"backtick">>

\* Lines 749-781 for one sheet: con.register under the sanitized name (a view
\* of that name is replaced), then under the name as it is and under the
\* backticked name, where a failure is swallowed; then the record entry.
RegisterSheet(reg, sheet, rejected) ==
    LET sanitized_name == sanitize_table_name(sheet)
        aliases == IF sheet \in rejected THEN {} ELSE {sheet, Backticked(sheet)}
    IN [tables |-> [n \in DOMAIN reg.tables \cup {sanitized_name} \cup aliases |->
                       IF n \in {sanitized_name} \cup aliases
                       THEN sheet ELSE reg.tables[n]],
        info |-> [s \in DOMAIN reg.info \cup {sheet} |->
                       IF s = sheet
                       THEN [sanitized |-> sanitized_name, original |-> sheet]
                       ELSE reg.info[s]]]

\* Lines 749-786: the loop over sheet_names, from a fresh connection.
RECURSIVE RegisterSheets(_, _, _)
RegisterSheets(reg, sheet_names, rejected) ==
    IF sheet_names = <<>> THEN reg
    ELSE RegisterSheets(RegisterSheet(reg, Head(sheet_names), rejected),
                        Tail(sheet_names), rejected)

NothingRegistered == [tables |-> <<>>, info |-> <<>>]

\* The registration pass of complex_duckdb_query on a workbook with the given
\* sheets; rejected: the sheets whose name the engine refuses as a table name.
RegisterWorkbook ==
    /\ probe = NoProbe
    /\ \E sheet_names \in SheetLists :
       \E rejected \in SUBSET {sheet_names[i] : i \in 1..Len(sheet_names)} :
          probe' = [op |-> "register",
                    arg |-> [sheet_names |-> sheet_names, rejected |-> rejected],
                    out |-> RegisterSheets(NothingRegistered, sheet_names, rejected)]
    /\ UNCHANGED programVars

SheetRaises_unguardedAliases(sheet, rejected, failing) ==
    sheet \in failing \cup rejected

\* Lines 751-771 for one sheet: pd.read_excel (751) and con.register under the
\* sanitized name (759) stand outside any inner try, so their failure leaves
\* the loop; the two alias registrations stand inside try / except: pass
\* (762-771). failing: the sheets that cannot be read or whose sanitized name
\* the engine refuses.
SheetRaises(sheet, rejected, failing) == sheet \in failing

\* Lines 749-781: the loop over sheet_names up to the first sheet that raises.
RECURSIVE RegisterUntilRaise(_, _, _, _)
RegisterUntilRaise(reg, sheet_names, rejected, failing) ==
    IF sheet_names = <<>> THEN [reg |-> reg, raised |-> FALSE]
    ELSE IF SheetRaises(Head(sheet_names), rejected, failing)
         THEN [reg |-> reg, raised |-> TRUE]
         ELSE RegisterUntilRaise(RegisterSheet(reg, Head(sheet_names), rejected),
                                 Tail(sheet_names), rejected, failing)

\* Lines 744-809 and 837-862 on a fresh connection: record is what line 786
\* stores (nothing when the loop raised), executed tells whether line 799 is
\* reached, error whether the handler's result of line 862 is returned for
\* the registration.
registration_pass(sheet_names, rejected, failing) ==
    LET pass == RegisterUntilRaise(NothingRegistered, sheet_names, rejected, failing)
    IN [record |-> IF pass.raised THEN {} ELSE {pass.reg.info},
        tables |-> pass.reg.tables,
        executed |-> ~pass.raised,
        error |-> pass.raised]

\* A call of complex_duckdb_query that has to register the workbook.
RegistrationPass ==
    /\ probe = NoProbe
    /\ \E sheet_names \in SheetLists :
       \E rejected, failing \in SUBSET {sheet_names[i] : i \in 1..Len(sheet_names)} :
          probe' = [op |-> "registration",
                    arg |-> [sheet_names |-> sheet_names, rejected |-> rejected,
                             failing |-> failing],
                    out |-> registration_pass(sheet_names, rejected, failing)]
    /\ UNCHANGED programVars

\* ------------------------------------------------- values of a query result
\* The kinds of value a result frame can hold: float NaN and infinities, a
\* finite numpy float or integer, a string, pandas Timestamp / Timedelta /
\* NaT, None, and a datetime object of the standard library.
Values ==
    {"nan", "inf", "neg_inf", "np_float", "np_int", "text", "Timestamp",
     "Timedelta", "NaT", None, "datetime"}

\* The values a column of each dtype holds.
ColumnValues(dtype) ==
    CASE dtype = "datetime64" -> {"Timestamp", "NaT"}
      [] dtype = "timedelta64" -> {"Timedelta", "NaT"}
      [] dtype = "float64" -> {"nan", "inf", "neg_inf", "np_float"}
      [] dtype = "int64" -> {"np_int"}
      [] OTHER -> Values

Dtypes == {"datetime64", "timedelta64", "float64", "int64", "object"}

Cells == UNION {{[dtype |-> d, val |-> v] : v \in ColumnValues(d)} : d \in Dtypes}

\* pd.isna / pd.notnull of a scalar.
isna(v) == v \in {"nan", "NaT", None}

\* safe_json_convert, lines 602-616.
safe_json_convert(obj) ==
    CASE isna(obj) -> None
      [] obj \in {"Timestamp", "Timedelta"} -> "text"
      [] obj = "np_float" -> "float"
      [] obj = "np_int" -> "int"
      [] obj = "datetime" -> "text"
      [] OTHER -> obj

\* clean_dataframe_for_json, lines 619-634, on one cell of a column.
clean_dataframe_for_json(cell) ==
    LET as_str == IF cell.dtype \in {"datetime64", "timedelta64"}
                  THEN "text" ELSE cell.val
        no_inf == IF as_str \in {"inf", "neg_inf"} THEN None ELSE as_str
    IN IF isna(no_inf) THEN None ELSE no_inf

\* Lines 915-916: the cleaning of a Series result.
CleanSeries(v) ==
    LET no_inf == IF v \in {"inf", "neg_inf"} THEN None ELSE v
    IN IF isna(no_inf) THEN None ELSE no_inf

\* The shapes of result: the frame of complex_duckdb_query and the three of
\* simple_dataframe_query.
Shapes == {"duckdb", "DataFrame", "Series", "scalar"}

\* The value that lands in the QueryResult for a value of the result.
ResultValue(shape, cell) ==
    CASE shape \in {"duckdb", "DataFrame"} ->
            safe_json_convert(clean_dataframe_for_json(cell))
      [] shape = "Series" -> safe_json_convert(CleanSeries(cell.val))
      [] OTHER -> safe_json_convert(cell.val)

\* A query whose result holds the given value in the given shape.
ConvertResult ==
    /\ probe = NoProbe
    /\ \E shape \in Shapes, cell \in Cells :
          probe' = [op |-> "query_result",
                    arg |-> [shape |-> shape, cell |-> cell],
                    out |-> ResultValue(shape, cell)]
    /\ UNCHANGED programVars

\* --------------------------------------------------------- preview of sheets
\* The text of a cell of a sheet; "missing" is an empty cell, read as NaN.
CellTexts == {"", " ", "-", "nan", "NaN", "null", "x", "missing"}

\* Lines 688-705: a sample cell as load_preview_data hands it out.
PreviewCell(text) ==
    LET filled == IF text = "missing" THEN "" ELSE text
        no_blank == IF filled \in {"", " "} THEN None ELSE filled
        no_word == IF no_blank \in {"nan", "NaN", "null"} THEN None ELSE no_blank
    IN safe_json_convert(clean_dataframe_for_json([dtype |-> "object", val |-> no_word]))

\* Lines 686-724: the body of the per-sheet try; the read of a sheet in
\* failing raises.
ReadSheet(sheet, failing, text) ==
    IF sheet \in failing
    THEN [raised |-> TRUE]
    ELSE [raised |-> FALSE,
          entry |-> [columns |-> <<"col">>,
                     sample_rows |-> <<PreviewCell(text)>>,
                     table_name_sanitized |-> sanitize_table_name(sheet)]]

PreviewSheet_uncaught(acc, sheet, failing, text) ==
    LET read == ReadSheet(sheet, failing, text) IN
    IF read.raised
    THEN [acc EXCEPT !.raised = TRUE]
    ELSE [acc EXCEPT !.sheets_data =
             [s \in DOMAIN @ \cup {sheet} |-> IF s = sheet THEN read.entry ELSE @[s]]]

\* Lines 685-727: one turn of the loop, the try with its except clause.
PreviewSheet(acc, sheet, failing, text) ==
    LET read == ReadSheet(sheet, failing, text)
        entry == IF read.raised THEN [error |-> RAW] ELSE read.entry
    IN [acc EXCEPT !.sheets_data =
           [s \in DOMAIN @ \cup {sheet} |-> IF s = sheet THEN entry ELSE @[s]]]

\* The loop over sheet_names; an exception that leaves a turn ends it.
RECURSIVE PreviewSheets(_, _, _, _)
PreviewSheets(acc, sheet_names, failing, text) ==
    IF sheet_names = <<>> \/ acc.raised THEN acc
    ELSE PreviewSheets(PreviewSheet(acc, Head(sheet_names), failing, text),
                       Tail(sheet_names), failing, text)

\* load_preview_data, lines 672-732, on a file that exists and holds the
\* given sheets, each with the given text in its sample cell.
load_preview_sheets(sheet_names, failing, text) ==
    LET acc == PreviewSheets([raised |-> FALSE, sheets_data |-> <<>>],
                             sheet_names, failing, text)
    IN IF sheet_names = <<>> \/ acc.raised
       THEN [error |-> RAW]
       ELSE [available_sheets |-> sheet_names, sheets_data |-> acc.sheets_data]

\* A call of load_preview_data.
LoadPreview ==
    /\ probe = NoProbe
    /\ \E sheet_names \in SheetLists, text \in CellTexts :
       \E failing \in SUBSET {sheet_names[i] : i \in 1..Len(sheet_names)} :
          probe' = [op |-> "load_preview_data",
                    arg |-> [sheet_names |-> sheet_names, failing |-> failing,
                             text |-> text],
                    out |-> load_preview_sheets(sheet_names, failing, text)]
    /\ UNCHANGED programVars

\* ------------------------------------------- parts of the engine's response
\* A part of candidates[0].content.parts: text, or a function_call naming one
\* of the three declared operations or a function that is not declared.
PartKinds ==
    {"text", "load_preview_data", "simple_dataframe_query",
     "complex_duckdb_query", "undeclared"}

\* The responses examined: up to MaxParts parts (none: no candidate, no
\* content or no part).
Responses == UNION {[1..n -> PartKinds] : n \in 0..MaxParts}

HandleParts_everyCall(parts) ==
    LET calls == SelectSeq(parts, LAMBDA part : part # "text")
    IN [executed |-> calls, no_call |-> calls = <<>>]

\* Lines 1191-1301: the loop over the parts. A part without function_call is
\* passed over; the first part with one is handed to execute_function and
\* the node returns (line 1290) inside the loop; a loop that ends without a
\* function call reaches the error of lines 1298-1301. executed: the calls
\* of execute_function, in order.
RECURSIVE HandleParts(_)
HandleParts(parts) ==
    IF parts = <<>> THEN [executed |-> <<>>, no_call |-> TRUE]
    ELSE IF Head(parts) = "text" THEN HandleParts(Tail(parts))
    ELSE [executed |-> <<Head(parts)>>, no_call |-> FALSE]

\* The generate_query node handles a response of the engine.
HandleResponse ==
    /\ probe = NoProbe
    /\ \E parts \in Responses :
          probe' = [op |-> "response", arg |-> parts, out |-> HandleParts(parts)]
    /\ UNCHANGED programVars

\* ------------------------------------------------- analytical engine cache
CacheHit_never(w) == FALSE

\* Line 41: the workbook is in both caches.
CacheHit(w) == connCache[w] # NoConn /\ regCache[w].present

\* A slot of workbook w that the connection opened at line 47 can take: never
\* used, or closed and referred to by no frame (the cache entry is about to
\* be overwritten).
FreeSlot(w, k) ==
    \/ conns[w][k].st = "unused"
    \/ /\ conns[w][k].st = "closed"
       /\ \A q \in Procs : ~Refers(q, w, k)

FreshConn(w) == CHOOSE k \in ConnSlots :
    /\ FreeSlot(w, k)
    /\ \A d \in ConnSlots : FreeSlot(w, d) => k <= d

\* Connection k of workbook w once line 48 has overwritten the cache entry:
\* the replaced connection is not closed; one that was closed already and
\* that no frame refers to is gone.
Dropped(w, k) ==
    IF /\ connCache[w] = k
       /\ conns[w][k].st = "closed"
       /\ \A q \in Procs : ~Refers(q, w, k)
    THEN UnusedConn ELSE conns[w][k]

\* The status of the connection the cache holds for w.
CachedStatus(w) ==
    IF connCache[w] = NoConn THEN "none"
    ELSE IF conns[w][connCache[w]].st = "open" THEN "live" ELSE "closed"

\* get_or_create_duckdb_connection, called by thread p for its frame's workbook.
Acquire(p) ==
    /\ call[p].pc = "acquire"
    /\ LET w == call[p].file_name
           first == call[p].depth = 0
           seen == [call EXCEPT
                      ![p].found = IF first THEN CachedStatus(w) ELSE @,
                      ![p].had_record = IF first THEN regCache[w].present ELSE @]
       IN
       IF CacheHit(w)
       THEN /\ call' = [seen EXCEPT ![p].con = connCache[w],
                                    ![p].needs_registration = FALSE,
                                    ![p].pc = "showtables"]
            /\ UNCHANGED <<connCache, conns>>
       ELSE /\ \E k \in ConnSlots : FreeSlot(w, k)
            /\ conns' = [conns EXCEPT ![w] = [k \in ConnSlots |->
                            IF k = FreshConn(w)
                            THEN [st |-> "open", tables |-> {}, closer |-> 0]
                            ELSE Dropped(w, k)]]
            /\ connCache' = [connCache EXCEPT ![w] = FreshConn(w)]
            /\ call' = [seen EXCEPT ![p].con = FreshConn(w),
                                    ![p].needs_registration = TRUE,
                                    ![p].pc = "register"]
    /\ UNCHANGED <<regCache, agentVars, probe>>

\* Line 47 raises (the engine cannot open a connection): nothing is stored
\* and the exception reaches the except clause of complex_duckdb_query with
\* con unbound.
AcquireFails(p) ==
    /\ call[p].pc = "acquire"
    /\ ~CacheHit(call[p].file_name)
    /\ LET w == call[p].file_name
           first == call[p].depth = 0
       IN call' = [call EXCEPT
                      ![p].found = IF first THEN CachedStatus(w) ELSE @,
                      ![p].had_record = IF first THEN regCache[w].present ELSE @,
                      ![p].pc = "except"]
    /\ UNCHANGED <<cacheVars, agentVars, probe>>

\* The workbooks whose entries clear_duckdb_cache(fn) removes (line 59).
ClearTargets(fn) == IF Truthy(fn) THEN {fn} ELSE Workbooks

\* con.close() by thread p (0: an administrative caller) on connection k of
\* workbook w: closed, or gone when no other frame refers to it.
Closed(w, k, p) ==
    IF \E q \in Procs \ {p} : Refers(q, w, k)
    THEN IF conns[w][k].st = "open"
         THEN [conns[w][k] EXCEPT !.st = "closed", !.closer = p]
         ELSE conns[w][k]
    ELSE UnusedConn

ClearDuckdbCache_keepingRecordOfOthers(fn, p) ==
    /\ conns' = [w \in Workbooks |-> [k \in ConnSlots |->
                    IF connCache[w] = k
                    THEN Closed(w, k, p) ELSE conns[w][k]]]
    /\ connCache' = [w \in Workbooks |-> NoConn]
    /\ regCache' = [w \in Workbooks |->
                        IF w \in ClearTargets(fn) THEN NoRecord ELSE regCache[w]]

ClearDuckdbCache_keepingRecord(fn, p) ==
    /\ conns' = [w \in Workbooks |-> [k \in ConnSlots |->
                    IF w \in ClearTargets(fn) /\ connCache[w] = k
                    THEN Closed(w, k, p) ELSE conns[w][k]]]
    /\ connCache' = [w \in Workbooks |->
                        IF w \in ClearTargets(fn) THEN NoConn ELSE connCache[w]]
    /\ regCache' = regCache

\* clear_duckdb_cache(fn) run by thread p.
ClearDuckdbCache(fn, p) ==
    /\ conns' = [w \in Workbooks |-> [k \in ConnSlots |->
                    IF w \in ClearTargets(fn) /\ connCache[w] = k
                    THEN Closed(w, k, p) ELSE conns[w][k]]]
    /\ connCache' = [w \in Workbooks |->
                        IF w \in ClearTargets(fn) THEN NoConn ELSE connCache[w]]
    /\ regCache' = [w \in Workbooks |->
                        IF w \in ClearTargets(fn) THEN NoRecord ELSE regCache[w]]

\* ---------------------------------------------------------- query executor
\* Lines 745-783: the registration pass on the frame's connection.
Register(p) ==
    /\ call[p].pc = "register"
    /\ LET w == call[p].file_name
           k == call[p].con
       IN IF get_excel_sheets(w) # {} /\ conns[w][k].st # "open"
          THEN \* con.register raises on a closed connection
               /\ call' = [call EXCEPT ![p].pc = "except", ![p].regs = @ + 1]
               /\ UNCHANGED conns
          ELSE /\ conns' = [conns EXCEPT ![w][k].tables = RegisteredBeforeFailure(w)]
               /\ call' = [call EXCEPT ![p].regs = @ + 1,
                              ![p].pc = IF FileStatus(w) = "badsheet"
                                        THEN "except" ELSE "store"]
    /\ UNCHANGED <<connCache, regCache, agentVars, probe>>

\* Lines 786-790: store the registration record, then SHOW TABLES.
StoreRegistration(p) ==
    /\ call[p].pc = "store"
    /\ LET w == call[p].file_name IN
       /\ regCache' = [regCache EXCEPT ![w] =
                          [present |-> TRUE, sheets |-> get_excel_sheets(w)]]
       /\ call' = [call EXCEPT ![p].pc =
                      IF conns[w][call[p].con].st = "open"
                      THEN "execute" ELSE "except"]
    /\ UNCHANGED <<connCache, conns, agentVars, probe>>

\* Lines 791-795: the cached path, SHOW TABLES outside the inner try.
ShowTables(p) ==
    /\ call[p].pc = "showtables"
    /\ call' = [call EXCEPT ![p].pc =
                   IF conns[call[p].file_name][call[p].con].st = "open"
                   THEN "execute" ELSE "except"]
    /\ UNCHANGED <<cacheVars, agentVars, probe>>

\* What con.execute(query) does on connection record cn of workbook w:
\*   "ok"    a result frame,
\*   "stale" an exception whose text holds "closed" or "connection",
\*   "fail"  any other exception.
ExecOutcome(cn, w, q) ==
    IF cn.st # "open" THEN "stale"
    ELSE CASE q = "connword" -> "stale"
           [] q = "invalid" -> "fail"
           [] OTHER -> IF get_excel_sheets(w) # {} /\ cn.tables = get_excel_sheets(w)
                       THEN "ok" ELSE "fail"

\* Lines 800-809: where an execution attempt leads.
AfterExecute(outcome) ==
    CASE outcome = "ok" -> "return"
      [] outcome = "stale" -> "clear"
      [] OTHER -> "except"

\* Lines 797-809: one execution attempt.
Execute(p) ==
    /\ call[p].pc = "execute"
    /\ LET w == call[p].file_name
           next == AfterExecute(ExecOutcome(conns[w][call[p].con], w, call[p].query))
       IN call' = [call EXCEPT ![p].attempts = @ + 1,
                               ![p].pc = next,
                               ![p].result = IF next = "return" THEN "result" ELSE @]
    /\ UNCHANGED <<cacheVars, agentVars, probe>>

\* Lines 804-806: clear the workbook's entry and call complex_duckdb_query
\* again; past the recursion limit the call raises into the except clause.
ClearAndRetry(p) ==
    /\ call[p].pc = "clear"
    /\ ClearDuckdbCache(call[p].file_name, p)
    /\ call' = [call EXCEPT ![p].pc = IF call[p].depth < MaxDepth
                                      THEN "acquire" ELSE "except",
                            ![p].depth = IF call[p].depth < MaxDepth
                                         THEN @ + 1 ELSE @,
                            ![p].con = NoConn]
    /\ UNCHANGED <<agentVars, probe>>

Except_unguarded(p) ==
    /\ call[p].pc = "except"
    /\ call' = [call EXCEPT
                   ![p].pc = IF call[p].con = NoConn THEN "raised" ELSE "return",
                   ![p].result = IF call[p].con = NoConn THEN @ ELSE "error"]
    /\ UNCHANGED <<cacheVars, agentVars, probe>>

\* Lines 837-862: every exception becomes the generic error result; the
\* SHOW TABLES of the handler, on a connection that is unbound or closed,
\* fails inside its own try.
Except(p) ==
    /\ call[p].pc = "except"
    /\ call' = [call EXCEPT ![p].pc = "return", ![p].result = "error"]
    /\ UNCHANGED <<cacheVars, agentVars, probe>>

\* One step of thread p inside complex_duckdb_query.
ToolStep(p) ==
    \/ Acquire(p)
    \/ AcquireFails(p)
    \/ Register(p)
    \/ StoreRegistration(p)
    \/ ShowTables(p)
    \/ Execute(p)
    \/ ClearAndRetry(p)
    \/ Except(p)

\* A cached engine connection becomes closed / invalid by a fault of the
\* engine.
ConnBreaks ==
    /\ \E w \in Workbooks :
          /\ connCache[w] # NoConn
          /\ conns[w][connCache[w]].st = "open"
          /\ conns' = [conns EXCEPT ![w][connCache[w]] =
                          [st |-> "closed", tables |-> {}, closer |-> 0]]
    /\ UNCHANGED <<connCache, regCache, call, agentVars, probe>>

\* A direct call complex_duckdb_query(w, q) by thread p.
StartCall(p) ==
    /\ call[p].pc = "idle"
    /\ call[p].calls < MaxCalls
    /\ \E w \in ConcWorkbooks, q \in Queries :
          call' = [call EXCEPT ![p] =
                      [IdleFrame EXCEPT !.pc = "acquire", !.file_name = w,
                                        !.query = q,
                                        !.calls = call[p].calls + 1]]
    /\ UNCHANGED <<cacheVars, agentVars, probe>>

\* The direct call of thread p returns to its caller.
FinishCall(p) ==
    /\ call[p].pc = "return"
    /\ call' = [call EXCEPT ![p] = [IdleFrame EXCEPT !.calls = call[p].calls]]
    /\ UNCHANGED <<cacheVars, agentVars, probe>>

InitState ==
    [user_input |-> "", file_name |-> "", preview_data |-> None,
     query_result |-> None, final_analysis |-> None, iterations_count |-> 0,
     error |-> None, workflow_stage |-> "initial"]

\* A MemorySaver that holds no checkpoint.
EmptySaver == [t \in ThreadIds |-> {}]

\* create_workflow, lines 1384-1388: the graph is compiled with a MemorySaver
\* made by this very call.
create_workflow_shared == wf.memory

create_workflow == EmptySaver

\* visited / turns: the nodes the invocation has run and what the reasoning
\* engine answered at each generate_query (history); memory: the latest
\* checkpoint the compiled graph's MemorySaver holds for each thread_id.
InitWf ==
    [node |-> "idle", file_name |-> None, steps |-> 0, returned |-> None,
     cause |-> None, visited |-> <<>>, turns |-> <<>>,
     thread |-> None, memory |-> EmptySaver]


\* ------------------------------------------------------ agent orchestrator
\* Lines 1412-1425: the state handed to app.invoke.
initial_state(fn, q) == [InitState EXCEPT !.file_name = fn, !.user_input = q]

\* run_excel_analysis, lines 1408-1431: a fresh AgentState enters the graph,
\* under thread_id t.
run_excel_analysis(t) ==
    /\ wf.node \in {"idle", "returned"}
    /\ \E fn \in FileNames, q \in {"", "q"} :
          /\ state' = initial_state(fn, q)
          /\ wf' = [node |-> "generate_query", file_name |-> fn, steps |-> 0,
                    returned |-> None, cause |-> None,
                    visited |-> <<>>, turns |-> <<>>, thread |-> t,
                    memory |-> [create_workflow EXCEPT ![t] = {initial_state(fn, q)}]]
          /\ hist' = IF fn = wf.file_name /\ wf.cause \in {"protocol", "recursion_limit"}
                     THEN wf.cause ELSE None
    /\ UNCHANGED <<cacheVars, call, probe>>

\* Line 1430: no session_id, the default thread_id.
Invoke == run_excel_analysis("excel_analysis_thread")

\* Line 1430: the caller passes its session_id.
InvokeSession == run_excel_analysis("session")

should_continue_to_analysis_noErrorCheck(s) ==
    CASE s.query_result = "error" -> [to |-> END, branch |-> "query_error"]
      [] s.query_result = "result" -> [to |-> "analyze", branch |-> "result"]
      [] s.workflow_stage = "generate_query" -> [to |-> "generate", branch |-> "preview"]
      [] OTHER -> [to |-> END, branch |-> "unexpected"]

\* should_continue_to_analysis: the edge taken after generate_query.
should_continue_to_analysis(s) ==
    CASE Truthy(s.error) -> [to |-> END, branch |-> "error"]
      [] s.query_result = "error" -> [to |-> END, branch |-> "query_error"]
      [] s.query_result = "result" -> [to |-> "analyze", branch |-> "result"]
      [] s.workflow_stage = "generate_query" -> [to |-> "generate", branch |-> "preview"]
      [] OTHER -> [to |-> END, branch |-> "unexpected"]

should_continue_after_analysis_noCompleted(s) ==
    CASE Truthy(s.error) -> [to |-> END, branch |-> "error"]
      [] s.iterations_count > MaxIterations -> [to |-> END, branch |-> "budget"]
      [] OTHER -> [to |-> "continue", branch |-> "continue"]

\* should_continue_after_analysis: the edge taken after generate_analysis.
should_continue_after_analysis(s) ==
    CASE Truthy(s.error) -> [to |-> END, branch |-> "error"]
      [] s.workflow_stage = "completed" -> [to |-> END, branch |-> "completed"]
      [] s.iterations_count > MaxIterations -> [to |-> END, branch |-> "budget"]
      [] OTHER -> [to |-> "continue", branch |-> "continue"]

\* create_workflow: the node each edge label leads to.
EdgeTarget(label) ==
    CASE label = "generate" -> "generate_query"
      [] label = "continue" -> "generate_query"
      [] label = "analyze" -> "generate_analysis"
      [] OTHER -> "END"

\* The generate_query node has returned state s; why names the branch of the
\* node that produced it, turn what the engine answered.
AfterGenerate(s, why, turn) ==
    LET edge == should_continue_to_analysis(s) IN
    /\ state' = s
    /\ wf' = [wf EXCEPT !.node = EdgeTarget(edge.to),
                        !.steps = @ + 1,
                        !.cause = IF edge.to = END THEN why ELSE @,
                        !.visited = Append(@, "generate_query"),
                        !.turns = Append(@, turn),
                        !.memory[wf.thread] = {s}]

NodeRunnable(n) == wf.node = n /\ wf.steps < RecursionLimit

\* Line 1129: the required fields of the state are present.
HasRequiredFields(s) == Truthy(s.file_name) /\ Truthy(s.user_input)

Counted_unchanged(s) == s

\* Line 1132.
Counted(s) == [s EXCEPT !.iterations_count = @ + 1]

GenerateQueryMissingFields_counted ==
    /\ NodeRunnable("generate_query")
    /\ ~HasRequiredFields(state)
    /\ AfterGenerate([Counted(state) EXCEPT !.error = FRIENDLY],
                     "missing_fields", "not_called")
    /\ UNCHANGED <<cacheVars, call, hist, probe>>

\* Lines 1129-1130 and 1303-1306: a missing field raises before the engine
\* is called.
GenerateQueryMissingFields ==
    /\ NodeRunnable("generate_query")
    /\ ~HasRequiredFields(state)
    /\ AfterGenerate([state EXCEPT !.error = FRIENDLY], "missing_fields", "not_called")
    /\ UNCHANGED <<cacheVars, call, hist, probe>>

\* Line 1180 raises (the engine call fails): lines 1303-1306.
GenerateQueryEngineRaises ==
    /\ NodeRunnable("generate_query")
    /\ HasRequiredFields(state)
    /\ AfterGenerate([Counted(state) EXCEPT !.error = FRIENDLY], "engine_exception", "raised")
    /\ UNCHANGED <<cacheVars, call, hist, probe>>

\* Lines 1298-1301: the response holds no function call.
GenerateQueryNoToolCall_clearing ==
    /\ NodeRunnable("generate_query")
    /\ HasRequiredFields(state)
    /\ AfterGenerate([Counted(state) EXCEPT !.error = FRIENDLY], "protocol", "text")
    /\ ClearDuckdbCache(state.file_name, 0)
    /\ UNCHANGED <<call, hist, probe>>

GenerateQueryNoToolCall ==
    /\ NodeRunnable("generate_query")
    /\ HasRequiredFields(state)
    /\ AfterGenerate([Counted(state) EXCEPT !.error = FRIENDLY], "protocol", "text")
    /\ UNCHANGED <<cacheVars, call, hist, probe>>

\* load_preview_data: a preview, or the error dict of line 732 whose text is
\* built from the exception.
load_preview_data(fn) ==
    IF Truthy(fn) /\ FileStatus(fn) \in {"ok", "badsheet"}
    THEN [ok |-> TRUE, error |-> None]
    ELSE [ok |-> FALSE, error |-> RAW]

\* simple_dataframe_query: a result, or the generic error of line 938.
simple_dataframe_query(fn, q) ==
    IF FileStatus(fn) \in {"ok", "badsheet"} /\ q = "valid"
    THEN [ok |-> TRUE, error |-> None]
    ELSE [ok |-> FALSE, error |-> FRIENDLY]

\* execute_function, lines 1089-1090: an error result is copied to the state.
execute_function(s, res) ==
    IF res.ok THEN s ELSE [s EXCEPT !.error = res.error]

StorePreview_stageless(s, res) ==
    IF res.ok
    THEN [s EXCEPT !.preview_data = "ok"]
    ELSE [s EXCEPT !.preview_data = "error", !.error = res.error,
                   !.workflow_stage = "error"]

\* Lines 1268-1277.
StorePreview(s, res) ==
    IF res.ok
    THEN [s EXCEPT !.preview_data = "ok", !.workflow_stage = "generate_query"]
    ELSE [s EXCEPT !.preview_data = "error", !.error = res.error,
                   !.workflow_stage = "error"]

StoreQueryResult_alwaysResult(s, res) ==
    [s EXCEPT !.query_result = "result", !.workflow_stage = "analysis_ready"]

\* Lines 1278-1288.
StoreQueryResult(s, res) ==
    [s EXCEPT !.query_result = IF res.ok THEN "result" ELSE "error",
              !.workflow_stage = IF res.ok THEN "analysis_ready" ELSE "error"]

GenerateQueryPreview_uncounted ==
    /\ NodeRunnable("generate_query")
    /\ HasRequiredFields(state)
    /\ LET res == load_preview_data(state.file_name) IN
          AfterGenerate(StorePreview(execute_function(state, res), res),
                        "preview_error",
                        IF res.ok THEN "preview_ok" ELSE "preview_error")
    /\ UNCHANGED <<cacheVars, call, hist, probe>>

\* The engine names load_preview_data (for the invocation's file, as for the
\* two query operations below).
GenerateQueryPreview ==
    /\ NodeRunnable("generate_query")
    /\ HasRequiredFields(state)
    /\ LET res == load_preview_data(state.file_name) IN
          AfterGenerate(StorePreview(execute_function(Counted(state), res), res),
                        "preview_error",
                        IF res.ok THEN "preview_ok" ELSE "preview_error")
    /\ UNCHANGED <<cacheVars, call, hist, probe>>

\* The engine names simple_dataframe_query.
GenerateQuerySimple ==
    /\ NodeRunnable("generate_query")
    /\ HasRequiredFields(state)
    /\ \E q \in Queries :
          LET res == simple_dataframe_query(state.file_name, q) IN
          AfterGenerate(StoreQueryResult(execute_function(Counted(state), res), res),
                        "query_error",
                        IF res.ok THEN "query_ok" ELSE "query_error")
    /\ UNCHANGED <<cacheVars, call, hist, probe>>

\* The engine names a function that is not in function_map, or passes
\* arguments the function does not take: lines 1094-1098.
GenerateQueryBadCall ==
    /\ NodeRunnable("generate_query")
    /\ HasRequiredFields(state)
    /\ LET res == [ok |-> FALSE, error |-> FRIENDLY] IN
       AfterGenerate(StoreQueryResult([Counted(state) EXCEPT !.error = FRIENDLY], res),
                     "query_error", "bad_call")
    /\ UNCHANGED <<cacheVars, call, hist, probe>>

\* The engine names complex_duckdb_query: the node enters the call.
GenerateQueryComplexBegin ==
    /\ NodeRunnable("generate_query")
    /\ HasRequiredFields(state)
    /\ \E q \in Queries :
          call' = [call EXCEPT ![Main] =
                      [IdleFrame EXCEPT !.pc = "acquire",
                                        !.file_name = state.file_name,
                                        !.query = q]]
    /\ state' = Counted(state)
    /\ wf' = [wf EXCEPT !.node = "in_tool"]
    /\ UNCHANGED <<cacheVars, hist, probe>>

\* complex_duckdb_query has returned into the node.
GenerateQueryComplexEnd ==
    /\ wf.node = "in_tool"
    /\ call[Main].pc = "return"
    /\ LET res == IF call[Main].result = "result"
                  THEN [ok |-> TRUE, error |-> None]
                  ELSE [ok |-> FALSE, error |-> FRIENDLY]
       IN AfterGenerate(StoreQueryResult(execute_function(state, res), res),
                        "query_error",
                        IF res.ok THEN "query_ok" ELSE "query_error")
    /\ call' = [call EXCEPT ![Main] = IdleFrame]
    /\ UNCHANGED <<cacheVars, hist, probe>>

\* analysis_generation_node with generate_analysis: the summary, the fallback
\* text for an empty response, or the text built from the exception.
GenerateAnalysis ==
    /\ NodeRunnable("generate_analysis")
    /\ \E outcome \in {"summary", "unable", RAW} :
          LET s == IF Truthy(state.error) \/ state.query_result = None
                   THEN state
                   ELSE [state EXCEPT !.final_analysis = outcome,
                                      !.workflow_stage = "completed"]
              edge == should_continue_after_analysis(s)
          IN /\ state' = s
             /\ wf' = [wf EXCEPT !.node = EdgeTarget(edge.to),
                                 !.steps = @ + 1,
                                 !.cause = IF edge.to = END THEN edge.branch ELSE @,
                                 !.visited = Append(@, "generate_analysis"),
                                 !.memory[wf.thread] = {s}]
    /\ UNCHANGED <<cacheVars, call, hist, probe>>

\* The graph has run RecursionLimit steps without reaching END: invoke raises
\* and run_excel_analysis catches it (lines 1443-1445).
RecursionLimitHit ==
    /\ wf.node \in {"generate_query", "generate_analysis"}
    /\ wf.steps >= RecursionLimit
    /\ wf' = [wf EXCEPT !.node = "END", !.cause = "recursion_limit"]
    /\ UNCHANGED <<cacheVars, call, state, hist, probe>>

ReturnedText_generic(s, cause) == FRIENDLY

\* run_excel_analysis, lines 1433-1445: the string handed to the user.
ReturnedText(s, cause) ==
    IF cause = "recursion_limit" THEN FRIENDLY
    ELSE IF Truthy(s.error) THEN s.error
    ELSE IF Truthy(s.final_analysis) THEN s.final_analysis
    ELSE FRIENDLY

ReturnResult ==
    /\ wf.node = "END"
    /\ wf' = [wf EXCEPT !.node = "returned", !.steps = 0,
                        !.visited = <<>>, !.turns = <<>>,
                        !.returned = ReturnedText(state, wf.cause)]
    /\ state' = InitState
    /\ UNCHANGED <<cacheVars, call, hist, probe>>

\* clear_duckdb_cache called between invocations, with a workbook or with no
\* argument.
AdminClear ==
    /\ wf.node \in {"idle", "returned"}
    /\ \E fn \in FileNames \cup {None} : ClearDuckdbCache(fn, 0)
    /\ UNCHANGED <<call, agentVars, probe>>

Init ==
    /\ connCache = [w \in Workbooks |-> NoConn]
    /\ regCache = [w \in Workbooks |-> NoRecord]
    /\ conns = [w \in Workbooks |-> [k \in ConnSlots |-> UnusedConn]]
    /\ call = [p \in Procs |-> IdleFrame]
    /\ state = InitState
    /\ wf = InitWf
    /\ hist = None
    /\ probe = NoProbe

\* Sequential use: one invocation at a time on thread Main.
Next ==
    \/ Invoke
    \/ GenerateQueryMissingFields
    \/ GenerateQueryEngineRaises
    \/ GenerateQueryNoToolCall
    \/ GenerateQueryPreview
    \/ GenerateQuerySimple
    \/ GenerateQueryBadCall
    \/ GenerateQueryComplexBegin
    \/ Acquire(Main)
    \/ AcquireFails(Main)
    \/ Register(Main)
    \/ StoreRegistration(Main)
    \/ ShowTables(Main)
    \/ Execute(Main)
    \/ ClearAndRetry(Main)
    \/ Except(Main)
    \/ GenerateQueryComplexEnd
    \/ GenerateAnalysis
    \/ RecursionLimitHit
    \/ ReturnResult
    \/ AdminClear
    \/ ConnBreaks

Spec == Init /\ [][Next]_vars

\* Concurrent invocations: both threads run complex_duckdb_query, their
\* steps interleaved, with no lock around the caches.
NextConc ==
    \/ \E p \in Procs : StartCall(p)
    \/ \E p \in Procs : ToolStep(p)
    \/ \E p \in Procs : FinishCall(p)

SpecConc == Init /\ [][NextConc]_vars

\* Invocations of several sessions, one at a time, with an engine that never
\* names complex_duckdb_query.
NextSessions ==
    \/ Invoke
    \/ InvokeSession
    \/ GenerateQueryMissingFields
    \/ GenerateQueryEngineRaises
    \/ GenerateQueryNoToolCall
    \/ GenerateQueryPreview
    \/ GenerateQuerySimple
    \/ GenerateQueryBadCall
    \/ GenerateAnalysis
    \/ RecursionLimitHit
    \/ ReturnResult

SpecSessions == Init /\ [][NextSessions]_vars

\* Calls of the data-conversion functions on inputs drawn from bounded sets.
NextData ==
    \/ SanitizeName
    \/ RegisterWorkbook
    \/ RegistrationPass
    \/ HandleResponse
    \/ ConvertResult
    \/ LoadPreview

SpecData == Init /\ [][NextData]_vars

\* ================================================================= claims
\* The program points right after get_or_create_duckdb_connection returned.
JustAcquired(p) == call[p].pc \in {"register", "showtables"} /\ call[p].depth = 0

\* C1: iterations_count never exceeds 11 in any reachable state of an
\* invocation (the workflow stops with a budget error at 11).
C1_IterationsAtMost11 == state.iterations_count <= MaxIterations + 1

\* C2: one complex_duckdb_query call makes at most 2 query-execution
\* attempts: a stale-connection error is retried once and never again.
C2_AtMostTwoAttempts == \A p \in Procs : call[p].attempts <= 2

\* C3 (as claimed): a call that finds the workbook's connection in the cache,
\* left there by an earlier call with no clear and no fault in between, gets
\* needsRegistration = false.
C3_SecondCallNeedsNoRegistration ==
    \A p \in Procs :
        (JustAcquired(p) /\ call[p].found = "live") => ~call[p].needs_registration

\* C3 (amended): under sequential use, a call that begins while the
\* workbook's registration record is stored gets needsRegistration = false
\* and registers no sheets before its first execution attempt fails.
C3_StoredRecordIsReused ==
    \A p \in Procs :
        (call[p].had_record /\ call[p].depth = 0)
            => (~call[p].needs_registration /\ call[p].regs = 0)

\* C3 witness: a second call has run on the cached, registered connection
\* and returned a result without registering.
C3_Witness ==
    \E p \in Procs :
        /\ call[p].pc = "return"
        /\ call[p].had_record
        /\ call[p].found = "live"
        /\ call[p].depth = 0
        /\ call[p].regs = 0
        /\ call[p].result = "result"

\* C4: text derived from a raw exception or engine diagnostic never reaches
\* the string run_excel_analysis returns.
C4_NoRawTextReturned == wf.returned # RAW

\* C5: a call that finds the cached connection closed, with the registration
\* record present, still returns the successful result of a valid query.
C5_StaleConnectionRecovered ==
    \A p \in Procs :
        (/\ call[p].pc = "return"
         /\ call[p].found = "closed"
         /\ call[p].had_record
         /\ call[p].query = "valid"
         /\ FileStatus(call[p].file_name) = "ok")
            => call[p].result = "result"

\* C6: get_or_create_duckdb_connection never answers needsRegistration =
\* false for a cached connection that is closed; it opens a fresh one.
C6_ClosedConnectionNotReused ==
    \A p \in Procs :
        (JustAcquired(p) /\ call[p].found = "closed") => call[p].needs_registration

\* clear_duckdb_cache(fn) called between two calls of the executor.
ClearStep(fn) == ClearDuckdbCache(fn, 0) /\ UNCHANGED <<call, agentVars, probe>>

\* C7: clear_duckdb_cache(w), for every string w, leaves the connection and
\* the registration record of every workbook other than w unchanged.
C7_ClearLeavesOtherWorkbooks ==
    [][\A fn \in FileNames :
          ClearStep(fn) =>
              \A w \in Workbooks \ {fn} :
                  /\ connCache'[w] = connCache[w]
                  /\ regCache'[w] = regCache[w]
                  /\ conns'[w] = conns[w]]_vars

\* C8: of two overlapping calls for a readable workbook that was not cached
\* when the first began, at most one performs the registration.
C8_RegisteredByAtMostOne ==
    \A p, q \in Procs :
        (/\ p # q
         /\ call[p].file_name = call[q].file_name
         /\ FileStatus(call[p].file_name) = "ok"
         /\ call[p].pc # "idle" /\ call[q].pc # "idle"
         /\ call[p].depth = 0 /\ call[q].depth = 0
         /\ call[p].found = "none")
            => ~(call[p].regs > 0 /\ call[q].regs > 0)

\* C9: a connection is never closed by another thread's clear_duckdb_cache
\* while a thread is between acquiring it and finishing its query on it.
C9_NotClosedWhileInUse ==
    \A q \in Procs :
        call[q].pc \in InUsePcs
            => conns[call[q].file_name][call[q].con].closer \notin Procs \ {q}

\* C10: the step that ends an invocation by a protocol violation or by
\* exhausting the step budget leaves both caches and every connection as
\* they were.
C10_TerminalStepKeepsCaches ==
    [][(wf.cause = None /\ wf'.cause \in {"protocol", "recursion_limit", "budget"})
          => (connCache' = connCache /\ regCache' = regCache /\ conns' = conns)]_vars

\* C10 witness: the invocation that follows such an ending, on the same
\* workbook, has returned a summary.
C10_Witness ==
    /\ hist \in {"protocol", "recursion_limit"}
    /\ wf.node = "returned"
    /\ wf.returned = "summary"

\* The engine first named load_preview_data, which succeeded, then an
\* executable query, which succeeded.
PreviewThenQuery == <<"preview_ok", "query_ok">>

\* C11: when the engine first returns a load_preview_data call that succeeds
\* and next an executable query that succeeds, the invocation has visited
\* generate_query, generate_query, generate_analysis in that order, ends with
\* workflow_stage = completed after exactly 2 iterations, and returns the
\* stored analysis, a non-empty string.
C11_PreviewThenQueryCompletes ==
    [][(wf.node = "END" /\ wf'.node = "returned" /\ wf.turns = PreviewThenQuery)
          => (/\ wf.visited = <<"generate_query", "generate_query",
                                "generate_analysis">>
              /\ state.workflow_stage = "completed"
              /\ state.iterations_count = 2
              /\ wf'.returned = state.final_analysis
              /\ wf'.returned \notin {None, "", FRIENDLY})]_vars

\* C11 witness: the scenario has run to the end of the graph with a summary.
C11_Witness ==
    /\ wf.node = "END"
    /\ wf.turns = PreviewThenQuery
    /\ wf.visited = <<"generate_query", "generate_query", "generate_analysis">>
    /\ state.final_analysis = "summary"

\* The generate_query step just taken got plain text from the engine.
PlainTextStep ==
    /\ Len(wf'.turns) = Len(wf.turns) + 1
    /\ wf'.turns[Len(wf'.turns)] = "text"

\* C12: a generate_query step whose engine response holds no tool call sets
\* an error and ends the workflow at that step: no tool is executed (caches,
\* connections, preview and query result are untouched) and the analyze node
\* has not been and will not be entered.
C12_PlainTextTerminates ==
    [][PlainTextStep
          => (/\ Truthy(state'.error)
              /\ wf'.node = "END"
              /\ \A i \in 1..Len(wf'.visited) : wf'.visited[i] # "generate_analysis"
              /\ UNCHANGED <<cacheVars, call>>
              /\ state'.preview_data = state.preview_data
              /\ state'.query_result = state.query_result)]_vars

\* C12 witness: after a successful preview the engine answered with plain
\* text and the workflow is at its end with the error set.
C12_Witness ==
    /\ wf.node = "END"
    /\ wf.turns = <<"preview_ok", "text">>
    /\ Truthy(state.error)

\* C13: every invocation is brought to its end by the workflow's own
\* transition guards: none runs on until the graph's recursion limit stops it.
C13_TerminatesByOwnGuards == wf.cause # "recursion_limit"

\* C15: in every registration record two different sheets of the workbook
\* have different sanitized table names, and the table registered under a
\* sheet's sanitized name holds that sheet (it was not overwritten).
C15_SanitizedNamesUnique ==
    probe.op = "register" =>
        /\ \A s1, s2 \in DOMAIN probe.out.info :
               s1 # s2 => probe.out.info[s1].sanitized # probe.out.info[s2].sanitized
        /\ \A s \in DOMAIN probe.out.info :
               probe.out.tables[probe.out.info[s].sanitized] = s

\* A value that serializes: no floating NaN or infinity, no temporal object.
JsonSafe(v) ==
    v \notin {"nan", "inf", "neg_inf", "Timestamp", "Timedelta", "NaT", "datetime"}

\* C16: every value of a QueryResult, of complex_duckdb_query and of each
\* of the three shapes of simple_dataframe_query, is JSON-safe.
C16_QueryResultJsonSafe ==
    probe.op = "query_result" => JsonSafe(probe.out)

\* C17: for a workbook with at least one sheet and any set of sheets whose
\* read fails, load_preview_data returns no top-level error and an entry for
\* every sheet: the per-sheet error for a failing sheet, and for every other
\* sheet the full entry it has when no sheet fails.
C17_SheetFailuresAreLocal ==
    (probe.op = "load_preview_data" /\ probe.arg.sheet_names # <<>>) =>
        LET a == probe.arg
            sheets == {a.sheet_names[i] : i \in 1..Len(a.sheet_names)}
        IN /\ "error" \notin DOMAIN probe.out
           /\ DOMAIN probe.out.sheets_data = sheets
           /\ \A s \in sheets :
                 probe.out.sheets_data[s] =
                    IF s \in a.failing
                    THEN [error |-> RAW]
                    ELSE load_preview_sheets(a.sheet_names, {}, a.text).sheets_data[s]
           /\ \A s \in sheets \ a.failing :
                 {"columns", "sample_rows"} \subseteq DOMAIN probe.out.sheets_data[s]

\* C17 witness: the first of two sheets failed and the second has its
\* columns and sample rows.
C17_Witness ==
    /\ probe.op = "load_preview_data"
    /\ Len(probe.arg.sheet_names) = 2
    /\ probe.arg.failing = {probe.arg.sheet_names[1]}
    /\ "sample_rows" \in DOMAIN probe.out.sheets_data[probe.arg.sheet_names[2]]

\* The tokens that stand for an absent value: blank, "-", "nan", "null".
AbsenceTokens == {"", " ", "-", "nan", "null"}

\* C18: in the sample rows of a preview, a cell whose text is blank, "-",
\* "nan" or "null" appears as None.
C18_AbsenceTokensBecomeNone ==
    (/\ probe.op = "load_preview_data"
     /\ "error" \notin DOMAIN probe.out
     /\ probe.arg.text \in AbsenceTokens) =>
        \A s \in DOMAIN probe.out.sheets_data :
            "sample_rows" \in DOMAIN probe.out.sheets_data[s]
                => probe.out.sheets_data[s].sample_rows[1] = None

\* C19: complex_duckdb_query and simple_dataframe_query are total: whatever
\* fails (opening the connection, the registration, the execution), the call
\* returns, never raises, and what it returns carries exactly one of a
\* result and an error.
C19_QueryCallsAreTotal ==
    /\ \A p \in Procs :
          /\ call[p].pc # "raised"
          /\ call[p].pc = "return" => call[p].result \in {"result", "error"}
    /\ \A fn \in FileNames, q \in Queries :
          LET res == simple_dataframe_query(fn, q)
          IN res.ok <=> res.error = None

\* C19 witness: a call whose connection could not be opened has returned
\* the error result.
C19_Witness ==
    \E p \in Procs :
        /\ call[p].pc = "return"
        /\ call[p].con = NoConn
        /\ call[p].attempts = 0
        /\ call[p].result = "error"

\* The step by which run_excel_analysis hands its initial state to the graph.
InvocationStarts == wf.node \in {"idle", "returned"} /\ wf'.node = "generate_query"

FinancialPerformance ==
    <<"F", "i", "n", "a", "n", "c", "i", "a", "l", " ",
      "P", "e", "r", "f", "o", "r", "m", "a", "n", "c", "e">>

\* C14: sanitize_table_name is idempotent, sanitize(sanitize(x)) =
\* sanitize(x) for every sheet name x, and it maps "Financial Performance" to
\* "financial_performance" and "  A--B  " to "a_b".
C14_SanitizeIdempotent ==
    /\ probe.op = "sanitize_table_name"
          => sanitize_table_name(probe.out) = probe.out
    /\ sanitize_table_name(FinancialPerformance) =
          <<"f", "i", "n", "a", "n", "c", "i", "a", "l", "_",
            "p", "e", "r", "f", "o", "r", "m", "a", "n", "c", "e">>
    /\ sanitize_table_name(<<" ", " ", "A", "-", "-", "B", " ", " ">>) =
          <<"a", "_", "b">>

\* The calls of the reasoning engine for a tool selection that the running
\* invocation has made: one for every generate_query turn but those that
\* stopped at the missing fields, and the one whose complex_duckdb_query is
\* still running.
EngineCalls ==
    Cardinality({i \in 1..Len(wf.turns) : wf.turns[i] # "not_called"})
        + (IF wf.node = "in_tool" THEN 1 ELSE 0)

\* C21: iterations_count is the one counter of the invocation: at every
\* point it equals the number of tool-selection calls of the reasoning
\* engine made so far, each generate_query that calls the engine adding
\* exactly 1 whether the engine picks the preview or an executable operation.
C21_IterationsCountEngineCalls ==
    wf.node \in {"generate_query", "in_tool", "generate_analysis", "END"}
        => state.iterations_count = EngineCalls

\* C21 witness: two previews and a query have been counted.
C21_Witness ==
    /\ wf.turns = <<"preview_ok", "preview_ok", "query_ok">>
    /\ state.iterations_count = 3

\* The frame of thread p is inside the registration pass of lines 746-786,
\* which ends by writing the workbook's record.
Registering(p) == call[p].pc \in {"register", "store"}

\* C22: a stored RegistrationRecord is never modified or replaced by a
\* sequence of complex_duckdb_query calls: a registration pass, the only
\* writer of the record, runs for a workbook only while the workbook has no
\* record (none yet, or its cache entry was cleared).
C22_StoredRecordNeverReplaced ==
    \A p \in Procs :
        Registering(p) => ~regCache[call[p].file_name].present

\* C22 witness: a record written by an earlier registration is still stored
\* while a later call on the same workbook executes without registering.
C22_Witness ==
    /\ call[Main].pc = "execute"
    /\ call[Main].had_record
    /\ call[Main].regs = 0
    /\ regCache[call[Main].file_name].present

\* C23: for every workbook at most one engine connection is open and it is
\* the one the cache holds: a connection that the cache has replaced or
\* dropped has been closed, so no open connection exists that the cache does
\* not reference.
C23_OnlyCachedConnectionOpen ==
    \A w \in Workbooks : \A k \in ConnSlots :
        conns[w][k].st = "open" => connCache[w] = k

\* What the reasoning engine answered at the latest generate_query of the
\* running invocation.
LastTurn == IF wf.turns = <<>> THEN None ELSE wf.turns[Len(wf.turns)]

\* This step is a generate_query step that ends with one of the given
\* answers of the engine.
TurnStep(answers) ==
    /\ Len(wf'.turns) = Len(wf.turns) + 1
    /\ wf'.turns[Len(wf'.turns)] \in answers

\* C24: a generate_query step in which the engine names an executable
\* operation stores the operation's result; the next node is analyze if and
\* only if the result is a success, and the workflow has terminated if it is
\* an error. The analyze node is never entered while the state holds an
\* error or a query result that is absent or an error.
C24_QueryStepRouting ==
    [][/\ TurnStep({"query_ok"}) =>
            /\ state'.query_result = "result"
            /\ wf'.node = "generate_analysis"
       /\ TurnStep({"query_error", "bad_call"}) =>
            /\ state'.query_result = "error"
            /\ wf'.node = "END"
       /\ wf'.node = "generate_analysis" =>
            /\ ~Truthy(state'.error)
            /\ state'.query_result = "result"]_vars

\* C24 witness: after a preview, a failed query has terminated the workflow
\* with its error result stored.
C24_Witness ==
    /\ wf.turns = <<"preview_ok", "query_error">>
    /\ wf.node = "END"
    /\ state.query_result = "error"

\* C25: a query that fails on an open, valid connection is terminal whatever
\* words its message holds: the cache entry is invalidated (line 805, with
\* the rebuild and re-registration that follow) only for a connection that
\* is not open.
C25_ValidConnectionFailureTerminal ==
    \A p \in Procs :
        call[p].pc = "clear"
            => conns[call[p].file_name][call[p].con].st # "open"

\* C26: when the summarisation call of the reasoning engine fails, the
\* analyze node stores no final analysis and does not mark the state
\* completed, and the text of the failure is never what the user gets.
C26_SummaryFailureNotStored ==
    /\ ~(state.final_analysis = RAW /\ state.workflow_stage = "completed")
    /\ ~(wf.cause = "completed" /\ wf.returned = RAW)

\* C27: a generate_query step in which the engine names the preview loops
\* back to generate_query with the preview stored if and only if the preview
\* succeeded; a fatal preview error (absent file, no sheets) terminates the
\* workflow with the error set, and from then on the engine is not called
\* again and no query is executed.
C27_PreviewStepRouting ==
    [][/\ TurnStep({"preview_ok"}) =>
            /\ state'.preview_data = "ok"
            /\ ~Truthy(state'.error)
            /\ wf'.node = "generate_query"
       /\ TurnStep({"preview_error"}) =>
            /\ Truthy(state'.error)
            /\ state'.query_result = None
            /\ wf'.node = "END"
       /\ wf.node = "END" =>
            /\ wf'.turns \in {wf.turns, <<>>}
            /\ wf'.node \in {"END", "returned"}
            /\ call' = call]_vars

\* C27 witness: the first answer of the engine was the preview of a workbook
\* that is absent, and the workflow has terminated with the error.
C27_Witness ==
    /\ wf.turns = <<"preview_error">>
    /\ wf.node = "END"
    /\ state.error = RAW
    /\ state.preview_data = "error"

\* C28: during registration a sheet that cannot be registered under its raw
\* name or its backticked name is passed over: registration continues, the
\* record of every sheet is stored and the query is executed. Only a sheet
\* that cannot be read or registered under its sanitized name aborts the
\* call with an error.
C28_AliasFailuresSwallowed ==
    probe.op = "registration" =>
        LET sheets == {probe.arg.sheet_names[i] : i \in 1..Len(probe.arg.sheet_names)}
            out == probe.out
        IN /\ probe.arg.failing = {} =>
                /\ out.executed /\ ~out.error
                /\ out.record # {}
                /\ \A info \in out.record : DOMAIN info = sheets
                /\ \A s \in sheets : sanitize_table_name(s) \in DOMAIN out.tables
           /\ probe.arg.failing # {} =>
                /\ ~out.executed /\ out.error
                /\ out.record = {}

\* C28 witness: both sheets of a workbook were refused under their raw and
\* backticked names, and the record was stored and the query executed.
C28_Witness ==
    /\ probe.op = "registration"
    /\ Len(probe.arg.sheet_names) = 2
    /\ Cardinality(probe.arg.rejected) = 2
    /\ probe.arg.failing = {}
    /\ probe.out.executed
    /\ probe.out.record # {}

\* The analyze node has run in the running invocation.
AnalyzeHasRun ==
    \E i \in 1..Len(wf.visited) : wf.visited[i] = "generate_analysis"

\* C29: whenever the analyze node has run, the workflow terminates right
\* after it: the edge back to generate_query is never taken and the branch
\* iterations_count > 10 of should_continue_after_analysis is never reached.
C29_AnalyzeThenTerminate ==
    /\ AnalyzeHasRun =>
          /\ wf.node = "END"
          /\ wf.visited[Len(wf.visited)] = "generate_analysis"
          /\ Cardinality({i \in 1..Len(wf.visited) :
                            wf.visited[i] = "generate_analysis"}) = 1
          /\ wf.cause \in {"completed", "error"}
    /\ wf.cause \notin {"budget", "continue"}

\* C29 witness: the analyze node ran after a single query and the workflow
\* has terminated with the fallback text as its analysis.
C29_Witness ==
    /\ wf.visited = <<"generate_query", "generate_analysis">>
    /\ wf.node = "END"
    /\ wf.cause = "completed"
    /\ state.final_analysis = "unable"

\* C30: the error of the state is absorbing: once set it is never cleared
\* during the invocation, no further engine call or tool execution takes
\* place, no node runs, and the text returned to the caller is that error
\* and not a summary.
C30_ErrorIsAbsorbing ==
    [][Truthy(state.error) =>
         /\ \/ state'.error = state.error
            \/ /\ wf'.node = "returned"
               /\ wf'.returned = state.error
         /\ wf'.node \in {"END", "returned"}
         /\ wf'.turns \in {wf.turns, <<>>}
         /\ wf'.visited \in {wf.visited, <<>>}
         /\ call' = call
         /\ state'.final_analysis = None]_vars

\* C30 witness: the invocation whose preview failed has returned the error
\* that the preview step had set.
C30_Witness ==
    /\ wf.node = "returned"
    /\ wf.cause = "preview_error"
    /\ wf.returned = RAW

\* The function calls among the parts of a response, in part order.
FunctionCalls(parts) == SelectSeq(parts, LAMBDA part : part # "text")

\* C31: one execution of the generate_query node executes at most one tool
\* operation: of several tool invocations in the response, or of text parts
\* followed by a tool invocation, only the first invocation in part order
\* is executed and the others are ignored.
C31_OnlyFirstToolCallExecuted ==
    probe.op = "response" =>
        LET calls == FunctionCalls(probe.arg) IN
        /\ Len(probe.out.executed) <= 1
        /\ calls # <<>> => probe.out.executed = <<calls[1]>>
        /\ calls = <<>> => probe.out.executed = <<>> /\ probe.out.no_call

\* C31 witness: a response of a text part, a preview call and a query call,
\* of which the preview alone was executed.
C31_Witness ==
    /\ probe.op = "response"
    /\ probe.arg = <<"text", "load_preview_data", "complex_duckdb_query">>
    /\ probe.out.executed = <<"load_preview_data">>

\* C32: an executable query operation is executed only when the state holds
\* a successfully loaded preview: a generate_query turn on which the engine
\* names a query operation executes it only if preview_data is loaded.
C32_QueryNeedsPreview ==
    /\ wf.node = "in_tool" => state.preview_data = "ok"
    /\ LastTurn \in {"query_ok", "query_error"} => state.preview_data = "ok"

\* C33: under sequential use every workbook that has a registration record
\* has a cached connection: the keys of the registration cache are among
\* the keys of the connection cache.
C33_RecordImpliesConnection ==
    \A w \in Workbooks : regCache[w].present => connCache[w] # NoConn

\* C33 witness: one workbook has a record and a connection while the entry
\* of another workbook, whose registration failed, holds a connection only.
C33_Witness ==
    /\ regCache["ok.xlsx"].present
    /\ connCache["ok.xlsx"] # NoConn
    /\ ~regCache["bad.xlsx"].present
    /\ connCache["bad.xlsx"] # NoConn

\* C34: in every interleaving of concurrent complex_duckdb_query calls,
\* whenever get_or_create_duckdb_connection answers needs_registration =
\* False, the connection it returns has every sheet of the workbook
\* registered on it.
C34_CachedConnectionIsRegistered ==
    \A p \in Procs :
        (call[p].pc = "showtables" /\ ~call[p].needs_registration)
            => conns[call[p].file_name][call[p].con].tables
                   = get_excel_sheets(call[p].file_name)

\* C35: when the registration step finds no sheets for the workbook (file
\* absent or unreadable) no RegistrationRecord is stored for it, so that a
\* later call registers again instead of reusing a connection with no
\* tables.
C35_NoRecordWithoutSheets ==
    \A w \in Workbooks : get_excel_sheets(w) = {} => ~regCache[w].present

\* The running invocation was given an empty question or an empty workbook
\* identifier.
EmptyInput ==
    /\ wf.node \in {"generate_query", "in_tool", "generate_analysis", "END"}
    /\ ~HasRequiredFields(state)

\* C36: an invocation with an empty question or an empty workbook
\* identifier terminates with the generic failure message without calling
\* the reasoning engine, without executing a tool, without touching the
\* cache, and with iterations_count still 0.
C36_EmptyInputRejected ==
    [][EmptyInput =>
         /\ wf' # wf =>
              /\ wf'.node \in {"END", "returned"}
              /\ wf'.node = "END" => state'.error = FRIENDLY
              /\ wf'.node = "returned" => wf'.returned = FRIENDLY
         /\ wf'.turns \in {<<>>, <<"not_called">>}
         /\ state'.iterations_count = 0
         /\ call' = call
         /\ connCache' = connCache
         /\ regCache' = regCache]_vars

\* C36 witness: an invocation with a workbook and an empty question has
\* terminated with the generic message as its error.
C36_Witness ==
    /\ wf.node = "END"
    /\ wf.cause = "missing_fields"
    /\ state.file_name = "ok.xlsx"
    /\ state.user_input = ""
    /\ state.error = FRIENDLY
    /\ state.iterations_count = 0
====
